---- MODULE Spec2Model ----
(***************************************************************************)
(* Digital evidence logging system: the evidence ledger (EvidenceRegistry  *)
(* contract), the content store (Express upload server), the list view     *)
(* (EvidenceList) and the verify view (EvidenceVerify).                    *)
(*                                                                         *)
(* Strings whose characters the code inspects (hashes, typed input, file   *)
(* names) are sequences of one-character strings.                          *)
(***************************************************************************)
EXTENDS Integers, Sequences, FiniteSets, TLC

(***************************************************************************)
(* Bounds of the model.                                                    *)
(***************************************************************************)
\* transactions sent to the ledger
MaxTx == 2
\* blocks sealed after genesis
MaxBlocks == 2
\* seconds by which a block's timestamp may exceed its parent's
MaxGap == 1
\* live deliveries handled by one list view
MaxLive == 3
\* verify operations started in one verify view
MaxVerify == 2
\* upload requests handled by the content store
MaxUploads == 2
\* requests to /files/... handled by the content store
MaxFileReqs == 1
MaxLookups == 1
MaxForms == 1
\* rows handed to one sortByTimestamp call
MaxRows == 4
\* largest timestamp of such a row
MaxStamp == 3

(***************************************************************************)
(* Program constants.                                                      *)
(***************************************************************************)
\* hex digits of a Keccak-256 digest: /^0x[0-9a-fA-F]{64}$/
HexLen == 64

Accounts == {"alice", "bob"}
Null == "null"

(***************************************************************************)
(* Character-level string helpers (String.prototype.trim, toLowerCase,     *)
(* startsWith, the two regular expressions).                               *)
(***************************************************************************)
UpperLetters == <<"A","B","C","D","E","F","G","H","I","J","K","L","M",
                  "N","O","P","Q","R","S","T","U","V","W","X","Y","Z">>
LowerLetters == <<"a","b","c","d","e","f","g","h","i","j","k","l","m",
                  "n","o","p","q","r","s","t","u","v","w","x","y","z">>
Digits == {"0","1","2","3","4","5","6","7","8","9"}
HexDigits == Digits \cup {"a","b","c","d","e","f","A","B","C","D","E","F"}
WhiteSpace == {" ", "\t", "\n"}

LowerChar(c) ==
  IF \E i \in 1..26 : UpperLetters[i] = c
    THEN LowerLetters[CHOOSE i \in 1..26 : UpperLetters[i] = c]
    ELSE c

UpperChar(c) ==
  IF \E i \in 1..26 : LowerLetters[i] = c
    THEN UpperLetters[CHOOSE i \in 1..26 : LowerLetters[i] = c]
    ELSE c

\* a conversion that keeps the letter case
keepCase(s) == s

toLowerCase(s) == [i \in 1..Len(s) |-> LowerChar(s[i])]

RECURSIVE TrimStart(_)
TrimStart(s) ==
  IF s # <<>> /\ Head(s) \in WhiteSpace THEN TrimStart(Tail(s)) ELSE s

RECURSIVE TrimEnd(_)
TrimEnd(s) ==
  IF s # <<>> /\ s[Len(s)] \in WhiteSpace
    THEN TrimEnd(SubSeq(s, 1, Len(s) - 1))
    ELSE s

trim(s) == TrimEnd(TrimStart(s))

startsWith0x(s) == Len(s) >= 2 /\ s[1] = "0" /\ s[2] = "x"

Rep(pat, n) == [i \in 1..(n * Len(pat)) |-> pat[((i - 1) % Len(pat)) + 1]]

(***************************************************************************)
(* Keccak-256 of a file's bytes, as ethers.keccak256 returns it: "0x" and  *)
(* 64 lower-case hex digits, distinct contents giving distinct digests.    *)
(***************************************************************************)
Contents == {"hello", "world"}

keccak256(bytes) ==
  <<"0", "x">> \o (IF bytes = "hello" THEN Rep(<<"1", "c">>, HexLen \div 2)
                                      ELSE Rep(<<"4", "b">>, HexLen \div 2))

\* the same digest typed with upper-case hex digits
UpperHex(h) == [i \in 1..Len(h) |-> IF i <= 2 THEN h[i] ELSE UpperChar(h[i])]


(***************************************************************************)
(* State.                                                                  *)
(***************************************************************************)
VARIABLES
  \* ---- evidence ledger (EvidenceRegistry) and the chain it runs on
  logs,        \* mapping(address => Evidence[])
  events,      \* EvidenceSubmitted logs, in chain order
  head,        \* number of the last sealed block
  blockTs,     \* block.timestamp of the block being built (head + 1)
  txCount,     \* transactions executed so far
  lastTx,      \* receipt of the last transaction
  logsV1,      \* mapping(address => Evidence[]) of the string-typed registry
  appends,     \* the calls that appended, in execution order
  \* ---- list view (EvidenceList)
  fromBlock,   \* REACT_APP_DEPLOY_BLOCK as parsed by useMemo
  items,       \* useState([]) : the reconciled feed
  status,      \* useState("idle")
  error,       \* useState("")
  cancelled,   \* let cancelled = false
  lpc,         \* position of the effect's async function
  latest,      \* const latest = await provider.getBlockNumber()
  listening,   \* contract.on("EvidenceSubmitted", onEvent) is attached
  liveSeen,    \* indexes (in events) handed to onEvent so far
  liveCount,   \* number of onEvent calls so far
  queries,     \* the block ranges the backfill asked queryFilter for
  subFrom,     \* head position when contract.on was called
  \* ---- verify view (EvidenceVerify)
  computedHash, \* useState("")
  matches,      \* useState([])
  vstatus,      \* useState("idle")
  verror,       \* useState("")
  ops,          \* the verify operations in flight, by start order
  verifyCount,  \* verify operations started so far
  done,         \* per mode, the last completed verify operation
  lastMode,     \* mode of the operation that completed last
  lastQuery,    \* the query of the most recently accepted submit
  \* ---- content store (server.js)
  store,        \* UPLOAD_DIR: stored name -> bytes
  uploadCount,  \* upload requests handled so far
  lastReq,      \* the last upload request
  lastRes,      \* and the response to it
  served,       \* successful uploads before the last request
  derived,      \* the storedName computed for each upload that carried a file
  fileReqCount, \* requests to /files/... handled so far
  lastFileReq,  \* the last request to /files/...
  lastFileRes,  \* and the response to it
  lookupCount,   \* number of /by-keccak requests so far
  lastLookupReq, \* the :hex parameter of the last /by-keccak request
  lastLookupRes, \* the answer to it
  \* ---- sortByTimestamp applied to rows as formatEvent can return them
  sortIn,       \* the rows handed to sortByTimestamp, in feed order
  sortOut,      \* and what it returned
  \* ---- proof-gated submit form (EvidenceForm)
  fpc,          \* where handleSubmit is waiting
  submitting,   \* useState(false)
  fin,          \* the form fields and the wallet's chain the handler runs on
  copy,         \* which copy of the form runs: "current" or "earlier"
  passed,       \* the checks the running handler has passed, in order
  txSent,       \* the handler's transaction was sent
  formRuns      \* submits so far

ledgerVars == <<logs, events, head, blockTs, txCount, lastTx, logsV1, appends>>
listVars == <<fromBlock, items, status, error, cancelled, lpc, latest,
              listening, liveSeen, liveCount, queries, subFrom>>
verifyVars == <<computedHash, matches, vstatus, verror, ops, verifyCount,
                done, lastMode, lastQuery>>
storeVars == <<store, uploadCount, lastReq, lastRes, served, derived,
               fileReqCount, lastFileReq, lastFileRes,
               lookupCount, lastLookupReq, lastLookupRes>>
sortVars == <<sortIn, sortOut>>
formVars == <<fpc, submitting, fin, copy, passed, txSent, formRuns>>
vars == <<ledgerVars, listVars, verifyVars, storeVars, sortVars, formVars>>

(***************************************************************************)
(* Evidence ledger.                                                        *)
(***************************************************************************)
\* results of Verifier.verify(input, proof): 0 is a pass
VerifyResults == {0, 1}

Evidence(fileHash, metaHash, timestamp, fileUrl) ==
  [fileHash |-> fileHash, metaHash |-> metaHash, timestamp |-> timestamp,
   fileUrl |-> fileUrl]

\* a push that puts the record in front
PushFront(list, e) == <<e>> \o list

\* logs[msg.sender].push(e)
Push(list, e) == Append(list, e)

\* position of the next log in the block being built
NextLogIndex == Cardinality({i \in DOMAIN events : events[i].blockNumber = head + 1})

\* emit EvidenceSubmitted(msg.sender, fileHash, metaHash, fileUrl, block.timestamp)
EvidenceSubmitted(submitter, fileHash, metaHash, fileUrl, timestamp) ==
  [blockNumber |-> head + 1, index |-> NextLogIndex, submitter |-> submitter,
   fileHash |-> fileHash, metaHash |-> metaHash, fileUrl |-> fileUrl,
   timestamp |-> timestamp]

\* a gate that lets every proof through
ProofAlwaysAccepted(v) == TRUE

\* require(verify(input, proof) == 0, "Invalid ZK proof")
ProofAccepted(v) == v = 0

\* what a call that appended was given: msg.sender, its arguments and the
\* block.timestamp it ran at
Appended(registry, sender, fileHash, metaHash, fileUrl) ==
  [registry |-> registry, sender |-> sender, fileHash |-> fileHash,
   metaHash |-> metaHash, fileUrl |-> fileUrl, timestamp |-> blockTs]

\* a registry that keeps one list for all submitters
StoreAndEmitShared(sender, fileHash, metaHash, fileUrl) ==
  /\ logs' = [a \in Accounts |->
                Push(logs[a], Evidence(fileHash, metaHash, blockTs, fileUrl))]
  /\ events' = Append(events,
                 EvidenceSubmitted(sender, fileHash, metaHash, fileUrl, blockTs))
  /\ appends' = Append(appends, Appended("V2", sender, fileHash, metaHash, fileUrl))

\* the state change shared by both submit functions
StoreAndEmit(sender, fileHash, metaHash, fileUrl) ==
  /\ logs' = [logs EXCEPT ![sender] =
                Push(@, Evidence(fileHash, metaHash, blockTs, fileUrl))]
  /\ events' = Append(events,
                 EvidenceSubmitted(sender, fileHash, metaHash, fileUrl, blockTs))
  /\ appends' = Append(appends, Appended("V2", sender, fileHash, metaHash, fileUrl))

submitEvidence(sender, fileHash, metaHash, fileUrl) ==
  /\ txCount < MaxTx
  /\ StoreAndEmit(sender, fileHash, metaHash, fileUrl)
  /\ txCount' = txCount + 1
  /\ lastTx' = [fn |-> "submitEvidence", sender |-> sender, check |-> 0,
                status |-> "success"]
  /\ UNCHANGED <<head, blockTs, logsV1>>
  /\ UNCHANGED <<listVars, verifyVars, storeVars, sortVars, formVars>>

submitEvidenceWithProof(sender, fileHash, metaHash, fileUrl, v) ==
  /\ txCount < MaxTx
  /\ IF ProofAccepted(v)
       THEN StoreAndEmit(sender, fileHash, metaHash, fileUrl)
       ELSE UNCHANGED <<logs, events, appends>>
  /\ txCount' = txCount + 1
  /\ lastTx' = [fn |-> "submitEvidenceWithProof", sender |-> sender,
                check |-> v,
                status |-> IF ProofAccepted(v) THEN "success" ELSE "reverted"]
  /\ UNCHANGED <<head, blockTs, logsV1>>
  /\ UNCHANGED <<listVars, verifyVars, storeVars, sortVars, formVars>>

\* the chain seals the block being built; the next block's timestamp is later
SealBlock ==
  /\ head < MaxBlocks
  /\ head' = head + 1
  /\ \E d \in 1..MaxGap : blockTs' = blockTs + d
  /\ UNCHANGED <<logs, events, txCount, lastTx, logsV1, appends>>
  /\ UNCHANGED <<listVars, verifyVars, storeVars, sortVars, formVars>>

getEvidenceCount(user) == Len(logs[user])

\* a lookup that counts the index from the newest record
getEvidenceFromEnd(user, index) == logs[user][Len(logs[user]) - index]

\* Evidence memory e = logs[user][index]; return (e.fileHash, e.metaHash,
\* e.fileUrl, e.timestamp)
getEvidence(user, index) == logs[user][index + 1]

\* the first EvidenceRegistry of EvidenceRegistry.sol: string hash and
\* metadata, no event
EvidenceV1(hash, metadata, timestamp) ==
  [hash |-> hash, metadata |-> metadata, timestamp |-> timestamp]

\* logs[msg.sender].push(Evidence(hash, metadata, block.timestamp))
submitEvidenceV1(sender, hash, metadata) ==
  /\ txCount < MaxTx
  /\ logsV1' = [logsV1 EXCEPT ![sender] = Push(@, EvidenceV1(hash, metadata, blockTs))]
  /\ appends' = Append(appends, Appended("V1", sender, hash, metadata, ""))
  /\ txCount' = txCount + 1
  /\ lastTx' = [fn |-> "submitEvidenceV1", sender |-> sender, check |-> 0,
                status |-> "success"]
  /\ UNCHANGED <<logs, events, head, blockTs>>
  /\ UNCHANGED <<listVars, verifyVars, storeVars, sortVars, formVars>>

\* the string registry with the proof gate:
\* require(verify(input, proof) == 0, "Invalid ZK proof");
\* logs[msg.sender].push(Evidence(hash, metadata, block.timestamp))
submitEvidenceWithProofV1(sender, hash, metadata, v) ==
  /\ txCount < MaxTx
  /\ IF ProofAccepted(v)
       THEN /\ logsV1' = [logsV1 EXCEPT ![sender] =
                            Push(@, EvidenceV1(hash, metadata, blockTs))]
            /\ appends' = Append(appends, Appended("V1", sender, hash, metadata, ""))
       ELSE UNCHANGED <<logsV1, appends>>
  /\ txCount' = txCount + 1
  /\ lastTx' = [fn |-> "submitEvidenceWithProofV1", sender |-> sender,
                check |-> v,
                status |-> IF ProofAccepted(v) THEN "success" ELSE "reverted"]
  /\ UNCHANGED <<logs, events, head, blockTs>>
  /\ UNCHANGED <<listVars, verifyVars, storeVars, sortVars, formVars>>

\* what a queryFilter(name, from, to) returns: the sealed logs of the range
queryFilter(from, to) ==
  SelectSeq(events, LAMBDA e : e.blockNumber >= from /\ e.blockNumber <= to
                               /\ e.blockNumber <= head)

(***************************************************************************)
(* List view (EvidenceList).                                               *)
(***************************************************************************)
\* id: `${blockNumber}-${logIndex}`
EventId(blockNumber, logIndex) == ToString(blockNumber) \o "-" \o ToString(logIndex)

formatEvent(ev) ==
  [id |-> EventId(ev.blockNumber, ev.index), submittedBy |-> ev.submitter,
   hash |-> ev.fileHash, metadata |-> ev.metaHash, timestamp |-> ev.timestamp]

Map(f(_), s) == [i \in 1..Len(s) |-> f(s[i])]

RECURSIVE dedupeById(_)
\* keeps the first row of each id
dedupeById(rows) ==
  IF rows = <<>> THEN <<>>
  ELSE LET init == dedupeById(SubSeq(rows, 1, Len(rows) - 1))
           r == rows[Len(rows)]
       IN IF \E i \in 1..Len(init) : init[i].id = r.id THEN init
          ELSE Append(init, r)

\* the comparator the other way round: a.timestamp - b.timestamp
InsertRowAscending(sorted, r) ==
  LET k == Cardinality({i \in 1..Len(sorted) : sorted[i].timestamp <= r.timestamp})
  IN SubSeq(sorted, 1, k) \o <<r>> \o SubSeq(sorted, k + 1, Len(sorted))

\* Array.prototype.sort with (a, b) => b.timestamp - a.timestamp: a stable
\* sort, so r goes behind every row that does not sort after it
InsertRow(sorted, r) ==
  LET k == Cardinality({i \in 1..Len(sorted) : sorted[i].timestamp >= r.timestamp})
  IN SubSeq(sorted, 1, k) \o <<r>> \o SubSeq(sorted, k + 1, Len(sorted))

RECURSIVE sortByTimestamp(_)
sortByTimestamp(rows) ==
  IF rows = <<>> THEN <<>>
  ELSE InsertRow(sortByTimestamp(SubSeq(rows, 1, Len(rows) - 1)), rows[Len(rows)])

\* a merge that shows the new row alone
MergeLiveReplacing(row, prev) == <<row>>

\* a merge that forgets to de-duplicate
MergeLiveNoDedupe(row, prev) == sortByTimestamp(<<row>> \o prev)

\* setItems((prev) => sortByTimestamp(dedupeById([row, ...prev])))
MergeLive(row, prev) == sortByTimestamp(dedupeById(<<row>> \o prev))

\* a backfill that is shown in the order the logs came
MergeHistoryUnsorted(history) == dedupeById(history)

\* setItems(sortByTimestamp(dedupeById(history)))
MergeHistory(history) == sortByTimestamp(dedupeById(history))

\* a catch that does not look at the cancellation flag
ListCatchUnguarded(msg) ==
  /\ lpc' = "failed"
  /\ error' = msg /\ status' = "error"

\* a catch that starts the load again
ListCatchRetrying(msg) ==
  /\ lpc' = "mount"
  /\ IF cancelled THEN UNCHANGED <<error, status>>
     ELSE error' = msg /\ status' = "error"

\* a catch that only logs the failure
ListCatchSilent(msg) ==
  /\ lpc' = "failed"
  /\ UNCHANGED <<error, status>>

\* catch (e) { if (!cancelled) { setError(...); setStatus("error"); } }
ListCatch(msg) ==
  /\ lpc' = "failed"
  /\ IF cancelled THEN UNCHANGED <<error, status>>
     ELSE error' = msg /\ status' = "error"

\* the effect starts: setStatus("loading"), getProvider(), getBlockNumber()
EffectStart(providerOk) ==
  /\ lpc = "mount"
  /\ IF providerOk
       THEN /\ status' = "loading"
            /\ lpc' = "getBlock"
            /\ UNCHANGED error
       ELSE ListCatch("No provider: install MetaMask or set REACT_APP_RPC_URL")
  /\ UNCHANGED <<fromBlock, items, cancelled, latest, listening, liveSeen, liveCount,
                 queries, subFrom>>
  /\ UNCHANGED <<ledgerVars, verifyVars, storeVars, sortVars, formVars>>

\* a backfill that starts one block late
BackfillQueriesLate(from, to) == <<[from |-> from + 1, to |-> to]>>

\* contract.queryFilter("EvidenceSubmitted", fromBlock, latest): the backfill
\* asks for its whole range in one query
BackfillQueries(from, to) == <<[from |-> from, to |-> to]>>

\* await provider.getBlockNumber() settles; queryFilter is called
GetBlockNumberDone(ok) ==
  /\ lpc = "getBlock"
  /\ IF ok
       THEN /\ latest' = head
            /\ queries' = BackfillQueries(fromBlock, head)
            /\ lpc' = "query"
            /\ UNCHANGED <<error, status>>
       ELSE /\ ListCatch("Failed to load events")
            /\ UNCHANGED <<latest, queries>>
  /\ UNCHANGED <<fromBlock, items, cancelled, listening, liveSeen, liveCount, subFrom>>
  /\ UNCHANGED <<ledgerVars, verifyVars, storeVars, sortVars, formVars>>

\* await contract.queryFilter(...) settles; then contract.on(...)
QueryFilterDone(ok) ==
  /\ lpc = "query"
  /\ IF ok
       THEN /\ IF cancelled THEN UNCHANGED <<items, status>>
               ELSE /\ items' = MergeHistory(Map(formatEvent, queryFilter(fromBlock, latest)))
                    /\ status' = "idle"
            /\ listening' = TRUE
            /\ subFrom' = head
            /\ lpc' = "live"
            /\ UNCHANGED error
       ELSE /\ ListCatch("Failed to load events")
            /\ UNCHANGED <<items, listening, subFrom>>
  /\ UNCHANGED <<fromBlock, cancelled, latest, liveSeen, liveCount, queries>>
  /\ UNCHANGED <<ledgerVars, verifyVars, storeVars, sortVars, formVars>>

\* the provider hands a sealed log to onEvent; delivery is at least once, so
\* a log may come again and logs the backfill fetched may come too
onEvent(i) ==
  /\ listening
  /\ liveCount < MaxLive
  /\ i \in DOMAIN events
  /\ events[i].blockNumber <= head
  /\ IF cancelled THEN UNCHANGED items
     ELSE items' = MergeLive(formatEvent(events[i]), items)
  /\ liveSeen' = liveSeen \cup {i}
  /\ liveCount' = liveCount + 1
  /\ UNCHANGED <<fromBlock, status, error, cancelled, lpc, latest, listening,
                 queries, subFrom>>
  /\ UNCHANGED <<ledgerVars, verifyVars, storeVars, sortVars, formVars>>

\* the effect's cleanup: () => { cancelled = true; }
Unmount ==
  /\ lpc # "mount"
  /\ ~cancelled
  /\ cancelled' = TRUE
  /\ UNCHANGED <<fromBlock, items, status, error, lpc, latest, listening,
                 liveSeen, liveCount, queries, subFrom>>
  /\ UNCHANGED <<ledgerVars, verifyVars, storeVars, sortVars, formVars>>


(***************************************************************************)
(* Verify view (EvidenceVerify).                                           *)
(***************************************************************************)
\* formatEvent of EvidenceVerify.js: the hash is kept as a string
formatVerifyEvent(ev) ==
  [id |-> EventId(ev.blockNumber, ev.index), submittedBy |-> ev.submitter,
   hash |-> ev.fileHash, metadata |-> ev.metaHash, timestamp |-> ev.timestamp]

\* the validator without the length: /^0x[0-9a-fA-F]+$/
isHexAnyLength(s) ==
  /\ Len(s) > 2
  /\ startsWith0x(s)
  /\ \A i \in 3..Len(s) : s[i] \in HexDigits

\* /^0x[0-9a-fA-F]{64}$/
isKeccak256Hex(s) ==
  /\ Len(s) = 2 + HexLen
  /\ startsWith0x(s)
  /\ \A i \in 3..Len(s) : s[i] \in HexDigits

\* /^\d+$/
isDecimal(s) == Len(s) >= 1 /\ \A i \in 1..Len(s) : s[i] \in Digits

\* a norm that forgets to trim
normNoTrim(s) == toLowerCase(s)

\* const norm = (s) => s.trim().toLowerCase()
norm(s) == toLowerCase(trim(s))

\* a query that drops the 0x prefix of the typed digest
TypedQueryNoPrefix(h) == toLowerCase(SubSeq(h, 3, Len(h)))

\* runVerify(h.toLowerCase())
TypedQuery(h) == toLowerCase(h)

\* rows.filter((r) => norm(r.hash) === target)
FilterMatches(rows, queryHash) ==
  SelectSeq(rows, LAMBDA r : norm(r.hash) = norm(queryHash))

NoOp == [stage |-> "none"]
NoDone == [valid |-> FALSE]
FreeSlot == verifyCount + 1

\* runVerify up to its first await: setMatches([]), setStatus("loading"),
\* setError(""), getProvider(), provider.getBlockNumber()
RunVerifyStart(id, mode, input, queryHash, providerOk) ==
  /\ matches' = <<>>
  /\ IF providerOk
       THEN /\ vstatus' = "loading"
            /\ verror' = ""
            /\ ops' = [ops EXCEPT ![id] = [stage |-> "getBlock", mode |-> mode,
                                           input |-> input, q |-> queryHash,
                                           latest |-> 0]]
       ELSE /\ vstatus' = "error"
            /\ verror' = "No provider: install MetaMask or set REACT_APP_RPC_URL"
            /\ ops' = [ops EXCEPT ![id] = NoOp]

\* onVerifyFile: if (!file) return; setComputedHash(""); keccak256File(file)
onVerifyFile(file) ==
  /\ vstatus # "loading"
  /\ verifyCount < MaxVerify
  /\ verifyCount' = verifyCount + 1
  /\ IF file = Null
       THEN UNCHANGED <<computedHash, ops, lastQuery>>
       ELSE /\ computedHash' = <<>>
            /\ lastQuery' = keccak256(file)
            /\ ops' = [ops EXCEPT ![FreeSlot] = [stage |-> "hash", mode |-> "file",
                                                 input |-> file, q |-> <<>>,
                                                 latest |-> 0]]
  /\ UNCHANGED <<matches, vstatus, verror, done, lastMode>>
  /\ UNCHANGED <<ledgerVars, listVars, storeVars, sortVars, formVars>>

\* await keccak256File(file) settles, then runVerify(h) starts
HashDone(id, ok, providerOk) ==
  /\ ops[id].stage = "hash"
  /\ IF ok
       THEN /\ computedHash' = keccak256(ops[id].input)
            /\ RunVerifyStart(id, "file", ops[id].input,
                              keccak256(ops[id].input), providerOk)
       ELSE /\ verror' = "Could not hash file"
            /\ vstatus' = "error"
            /\ ops' = [ops EXCEPT ![id] = NoOp]
            /\ UNCHANGED <<computedHash, matches>>
  /\ UNCHANGED <<verifyCount, done, lastMode, lastQuery>>
  /\ UNCHANGED <<ledgerVars, listVars, storeVars, sortVars, formVars>>

\* onVerifyHash: validation of the typed value, then runVerify
onVerifyHash(typedHash, providerOk) ==
  /\ vstatus # "loading"
  /\ verifyCount < MaxVerify
  /\ verifyCount' = verifyCount + 1
  /\ LET h == trim(typedHash) IN
       IF h = <<>>
         THEN UNCHANGED <<matches, vstatus, verror, ops, lastQuery>>
       ELSE IF startsWith0x(h)
         THEN IF ~isKeccak256Hex(h)
                THEN /\ verror' = "Invalid hash: must be 0x + 64 hex chars (Keccak-256)."
                     /\ vstatus' = "error"
                     /\ UNCHANGED <<matches, ops, lastQuery>>
                ELSE /\ RunVerifyStart(FreeSlot, "hash", typedHash, TypedQuery(h),
                                       providerOk)
                     /\ lastQuery' = TypedQuery(h)
       ELSE IF ~isDecimal(h)
         THEN /\ verror' = "Invalid commitment: paste a decimal number (no spaces)."
              /\ vstatus' = "error"
              /\ UNCHANGED <<matches, ops, lastQuery>>
         ELSE /\ RunVerifyStart(FreeSlot, "hash", typedHash, h, providerOk)
              /\ lastQuery' = h
  /\ UNCHANGED <<computedHash, done, lastMode>>
  /\ UNCHANGED <<ledgerVars, listVars, storeVars, sortVars, formVars>>

\* catch (e) of runVerify
VerifyCatch(id) ==
  /\ verror' = "Verification failed"
  /\ vstatus' = "error"
  /\ ops' = [ops EXCEPT ![id] = NoOp]
  /\ UNCHANGED <<matches, done, lastMode>>

\* await provider.getBlockNumber() settles
VerifyGetBlockDone(id, ok) ==
  /\ ops[id].stage = "getBlock"
  /\ IF ok
       THEN /\ ops' = [ops EXCEPT ![id].stage = "query", ![id].latest = head]
            /\ UNCHANGED <<matches, vstatus, verror, done, lastMode>>
       ELSE VerifyCatch(id)
  /\ UNCHANGED <<computedHash, verifyCount, lastQuery>>
  /\ UNCHANGED <<ledgerVars, listVars, storeVars, sortVars, formVars>>

\* await contract.queryFilter(...) settles: filter, setMatches, setStatus("done")
VerifyQueryDone(id, ok) ==
  /\ ops[id].stage = "query"
  /\ IF ok
       THEN LET rows == Map(formatVerifyEvent, queryFilter(fromBlock, ops[id].latest))
                found == FilterMatches(rows, ops[id].q)
            IN /\ matches' = found
               /\ vstatus' = "done"
               /\ ops' = [ops EXCEPT ![id] = NoOp]
               /\ done' = [done EXCEPT ![ops[id].mode] =
                             [valid |-> TRUE, input |-> ops[id].input, q |-> ops[id].q,
                              latest |-> ops[id].latest, matches |-> found]]
               /\ lastMode' = ops[id].mode
               /\ UNCHANGED verror
       ELSE VerifyCatch(id)
  /\ UNCHANGED <<computedHash, verifyCount, lastQuery>>
  /\ UNCHANGED <<ledgerVars, listVars, storeVars, sortVars, formVars>>


(***************************************************************************)
(* Content store (server.js).                                              *)
(***************************************************************************)
\* path.extname(name) for a name without directory part
extname(name) ==
  LET dots == {i \in 1..Len(name) : name[i] = "."}
  IN IF dots = {} THEN <<>>
     ELSE LET d == CHOOSE i \in dots : \A j \in dots : j <= i
          IN IF d = 1 THEN <<>> ELSE SubSeq(name, d, Len(name))

\* a name that keeps the 0x of the digest
StoredNameWithPrefix(k, ext) == k \o ext

\* `${k.slice(2)}${ext}`
StoredName(k, ext) == SubSeq(k, 3, Len(k)) \o ext

\* `/files/${storedName}`
FileUrl(storedName) == <<"/", "f", "i", "l", "e", "s", "/">> \o storedName

\* error.code of fs.writeFileSync(absPath, buf, { flag: "wx" }) on an existing path
WriteExistsCode == "EEXIST"

\* if (e.code !== "EXIST") return res.status(500)...
IsAlreadyStored(code) == code = "EXIST"

ErrorResponse(statusCode, msg) ==
  [status |-> statusCode, ok |-> FALSE, error |-> msg, keccak256 |-> <<>>,
   filename |-> <<>>, url |-> <<>>]

\* res.json({ ok: true, keccak256, sha256, filename, url }); sha256 is left
\* out, nothing reads it
OkResponse(k, storedName) ==
  [status |-> 200, ok |-> TRUE, error |-> "", keccak256 |-> k,
   filename |-> storedName, url |-> FileUrl(storedName)]

\* req.file when the request carries no file
NoFile == [present |-> FALSE, buffer |-> "", originalname |-> <<>>]

\* the storedName the handler computed from buf and originalname
Derived(file, storedName) ==
  [buffer |-> file.buffer, originalname |-> file.originalname,
   storedName |-> storedName]

\* an upload handler without the guard on req.file: for a request without a
\* file reading req.file.buffer throws and the outer catch answers 500
UploadUnguarded(file, writeFails) ==
  /\ uploadCount < MaxUploads
  /\ uploadCount' = uploadCount + 1
  /\ lastReq' = file
  /\ UNCHANGED <<served, fileReqCount, lastFileReq, lastFileRes,
                 lookupCount, lastLookupReq, lastLookupRes>>
  /\ IF ~file.present
       THEN /\ lastRes' = ErrorResponse(500, "Upload failed")
            /\ UNCHANGED <<store, derived>>
       ELSE LET k == keccak256(file.buffer)
                storedName == StoredName(k, toLowerCase(extname(file.originalname)))
            IN /\ derived' = derived \cup {Derived(file, storedName)}
               /\ IF storedName \in DOMAIN store \/ writeFails
                    THEN /\ UNCHANGED store
                         /\ lastRes' = ErrorResponse(500, "Upload failed")
                    ELSE /\ store' = [n \in DOMAIN store \cup {storedName} |->
                                        IF n = storedName THEN file.buffer ELSE store[n]]
                         /\ lastRes' = OkResponse(k, storedName)
  /\ UNCHANGED <<ledgerVars, listVars, verifyVars, sortVars, formVars>>

\* an upload handler that keeps multer's disk storage under the original
\* name: a later upload of that name replaces the bytes
UploadUnderOriginalName(file, writeFails) ==
  /\ uploadCount < MaxUploads
  /\ uploadCount' = uploadCount + 1
  /\ lastReq' = file
  /\ UNCHANGED <<served, fileReqCount, lastFileReq, lastFileRes,
                 lookupCount, lastLookupReq, lastLookupRes>>
  /\ IF ~file.present
       THEN /\ lastRes' = ErrorResponse(400, "No file")
            /\ UNCHANGED <<store, derived>>
       ELSE /\ derived' = derived \cup {Derived(file, file.originalname)}
            /\ store' = [n \in DOMAIN store \cup {file.originalname} |->
                           IF n = file.originalname THEN file.buffer ELSE store[n]]
            /\ lastRes' = OkResponse(keccak256(file.buffer), file.originalname)
  /\ UNCHANGED <<ledgerVars, listVars, verifyVars, sortVars, formVars>>

\* app.post("/upload"): file is req.file; writeFails says
\* whether writing a new path fails (the directory cannot be written)
Upload(file, writeFails) ==
  /\ uploadCount < MaxUploads
  /\ uploadCount' = uploadCount + 1
  /\ lastReq' = file
  /\ served' = IF lastRes.ok
                 THEN served \cup {[buffer |-> lastReq.buffer,
                                    ext |-> extname(lastReq.originalname),
                                    filename |-> lastRes.filename,
                                    url |-> lastRes.url]}
                 ELSE served
  /\ UNCHANGED <<fileReqCount, lastFileReq, lastFileRes,
                 lookupCount, lastLookupReq, lastLookupRes>>
  /\ IF ~file.present
       THEN /\ lastRes' = ErrorResponse(400, "No file")
            /\ UNCHANGED <<store, derived>>
       ELSE LET k == keccak256(file.buffer)
                ext == toLowerCase(extname(file.originalname))
                storedName == StoredName(k, ext)
            IN /\ derived' = derived \cup {Derived(file, storedName)}
               /\ IF storedName \in DOMAIN store
                    THEN \* writeFileSync throws: the path exists
                         /\ UNCHANGED store
                         /\ lastRes' = IF IsAlreadyStored(WriteExistsCode)
                                         THEN OkResponse(k, storedName)
                                         ELSE ErrorResponse(500, "Upload failed")
                    ELSE IF writeFails
                      THEN /\ UNCHANGED store
                           /\ lastRes' = ErrorResponse(500, "Upload failed")
                      ELSE /\ store' = [n \in DOMAIN store \cup {storedName} |->
                                          IF n = storedName THEN file.buffer ELSE store[n]]
                           /\ lastRes' = OkResponse(k, storedName)
  /\ UNCHANGED <<ledgerVars, listVars, verifyVars, sortVars, formVars>>

\* req.method
Methods == {"GET", "HEAD", "POST", "PUT", "PATCH", "DELETE", "OPTIONS"}

FileResponse(statusCode, handler, body) ==
  [status |-> statusCode, handler |-> handler, body |-> body]

\* a gate that lets every method through
GateOpen(method) == TRUE

\* if (req.method === "GET" || req.method === "HEAD") return next();
ReadOnlyGate(method) == method \in {"GET", "HEAD"}

\* app.use("/files", express.static(UPLOAD_DIR, ...)) and what follows it:
\* express.static answers GET and HEAD of a stored name and passes every
\* other request on; then app.get("*") sends index.html when fe/build exists,
\* and nothing else matches
ServeStatic(method, name, buildExists) ==
  IF method \in {"GET", "HEAD"} /\ name \in DOMAIN store
    THEN FileResponse(200, "static", IF method = "GET" THEN store[name] ELSE "")
  ELSE IF method \in {"GET", "HEAD"} /\ buildExists
    THEN FileResponse(200, "index", "")
  ELSE FileResponse(404, "none", "")

\* a request to /files/<name>: app.use(cors(corsOpts)) ends an OPTIONS
\* request with 204, then the gate of app.all("/files/*"), then express.static
FilesRequest(method, name, buildExists) ==
  /\ fileReqCount < MaxFileReqs
  /\ fileReqCount' = fileReqCount + 1
  /\ lastFileReq' = [method |-> method, name |-> name]
  /\ lastFileRes' = IF method = "OPTIONS" THEN FileResponse(204, "cors", "")
                    ELSE IF ReadOnlyGate(method)
                      THEN ServeStatic(method, name, buildExists)
                    ELSE FileResponse(405, "gate", "Method Not Allowed")
  /\ UNCHANGED <<store, uploadCount, lastReq, lastRes, served, derived,
                 lookupCount, lastLookupReq, lastLookupRes>>
  /\ UNCHANGED <<ledgerVars, listVars, verifyVars, sortVars, formVars>>

\* String.prototype.startsWith
startsWith(s, prefix) ==
  Len(prefix) <= Len(s) /\ SubSeq(s, 1, Len(prefix)) = prefix

LookupResponse(statusCode, ok, filename, url, err) ==
  [status |-> statusCode, ok |-> ok, filename |-> filename, url |-> url,
   error |-> err]

\* app.get("/by-keccak/:hex"): the first name of the upload directory that
\* starts with the lower-cased parameter (its "0x" removed); readdirSync
\* promises no order, so any such name can be the first
ByKeccak(hex) ==
  /\ lookupCount < MaxLookups
  /\ lookupCount' = lookupCount + 1
  /\ lastLookupReq' = hex
  /\ LET stripped == IF startsWith(hex, <<"0", "x">>)
                       THEN SubSeq(hex, 3, Len(hex)) ELSE hex
         low == toLowerCase(stripped)
         found == {f \in DOMAIN store : startsWith(f, low)}
     IN IF found = {}
          THEN lastLookupRes' = LookupResponse(404, FALSE, <<>>, <<>>, "Not found")
          ELSE \E file \in found :
                 lastLookupRes' = LookupResponse(200, TRUE, file, FileUrl(file), "")
  /\ UNCHANGED <<store, uploadCount, lastReq, lastRes, served, derived,
                 fileReqCount, lastFileReq, lastFileRes>>
  /\ UNCHANGED <<ledgerVars, listVars, verifyVars, sortVars, formVars>>

(***************************************************************************)
(* Proof-gated submit form (EvidenceForm.handleSubmit), both copies.       *)
(***************************************************************************)
\* value of a decimal digit
DigitValue(c) == CHOOSE d \in 0..9 : ToString(d) = c

\* toBig(secret) for a string of decimal digits
RECURSIVE toBig(_)
toBig(s) ==
  IF s = <<>> THEN 0
  ELSE 10 * toBig(SubSeq(s, 1, Len(s) - 1)) + DigitValue(s[Len(s)])

\* commitmentBig = toBig(secret) * 12345n
Commitment(secret) == toBig(secret) * 12345

NoForm == [ethereum |-> FALSE, proof |-> FALSE, secret |-> <<>>, storeMode |-> "file",
           evidence |-> FALSE, chainId |-> 0, code |-> "", inputs |-> <<>>,
           reverts |-> FALSE]

\* the four guards before setSubmitting(true)
Present(f) ==
  /\ f.ethereum
  /\ f.proof
  /\ trim(f.secret) # <<>>
  /\ (f.storeMode = "file" => f.evidence)

\* the checks of handleSubmit, in the order of the code
AllChecks == <<"present", "network", "code", "input", "simulation">>

\* return or throw inside try: finally { setSubmitting(false); }
FormFinish ==
  /\ fpc' = "idle"
  /\ submitting' = FALSE
  /\ fin' = NoForm

\* handleSubmit up to its first await (the button is disabled while submitting)
handleSubmit(f) ==
  /\ fpc = "idle" /\ ~submitting
  /\ formRuns < MaxForms
  /\ formRuns' = formRuns + 1
  /\ copy' = "current"
  /\ txSent' = FALSE
  /\ IF Present(f)
       THEN /\ passed' = <<"present">>
            /\ submitting' = TRUE
            /\ fin' = f
            /\ fpc' = "connect"
       ELSE /\ passed' = <<>>
            /\ FormFinish
  /\ UNCHANGED <<ledgerVars, listVars, verifyVars, storeVars, sortVars>>

\* eth_requestAccounts, getSigner and getNetwork settle; chainId !== 31337n
Connected(ok) ==
  /\ fpc = "connect" /\ copy = "current"
  /\ IF ok /\ fin.chainId = 31337
       THEN /\ passed' = Append(passed, "network")
            /\ fpc' = "code"
            /\ UNCHANGED <<submitting, fin>>
       ELSE /\ FormFinish
            /\ UNCHANGED passed
  /\ UNCHANGED <<copy, txSent, formRuns>>
  /\ UNCHANGED <<ledgerVars, listVars, verifyVars, storeVars, sortVars>>

\* provider.getCode(CONTRACT_ADDRESS) settles; !code || code === "0x"
GotCode(ok) ==
  /\ fpc = "code" /\ copy = "current"
  /\ IF ok /\ fin.code # "" /\ fin.code # "0x"
       THEN /\ passed' = Append(passed, "code")
            /\ fpc' = "parse"
            /\ UNCHANGED <<submitting, fin>>
       ELSE /\ FormFinish
            /\ UNCHANGED passed
  /\ UNCHANGED <<copy, txSent, formRuns>>
  /\ UNCHANGED <<ledgerVars, listVars, verifyVars, storeVars, sortVars>>

\* keccak256File and proofFile.text() settle, JSON.parse; inputsDyn.length < 1,
\* inputsDyn[0] !== commitmentBig
Parsed(ok) ==
  /\ fpc = "parse" /\ copy = "current"
  /\ IF ok /\ Len(fin.inputs) >= 1 /\ fin.inputs[1] = Commitment(fin.secret)
       THEN /\ passed' = Append(passed, "input")
            /\ fpc' = "simulate"
            /\ UNCHANGED <<submitting, fin>>
       ELSE /\ FormFinish
            /\ UNCHANGED passed
  /\ UNCHANGED <<copy, txSent, formRuns>>
  /\ UNCHANGED <<ledgerVars, listVars, verifyVars, storeVars, sortVars>>

\* contract.submitEvidenceWithProof.staticCall(...) settles
Simulated(ok) ==
  /\ fpc = "simulate" /\ copy = "current"
  /\ IF ok /\ ~fin.reverts
       THEN /\ passed' = Append(passed, "simulation")
            /\ fpc' = "send"
            /\ UNCHANGED <<submitting, fin>>
       ELSE /\ FormFinish
            /\ UNCHANGED passed
  /\ UNCHANGED <<copy, txSent, formRuns>>
  /\ UNCHANGED <<ledgerVars, listVars, verifyVars, storeVars, sortVars>>

\* the earlier copy of handleSubmit up to its first await
handleSubmitEarlier(f) ==
  /\ fpc = "idle" /\ ~submitting
  /\ formRuns < MaxForms
  /\ formRuns' = formRuns + 1
  /\ copy' = "earlier"
  /\ txSent' = FALSE
  /\ IF Present(f)
       THEN /\ passed' = <<"present">>
            /\ submitting' = TRUE
            /\ fin' = f
            /\ fpc' = "parse"
       ELSE /\ passed' = <<>>
            /\ FormFinish
  /\ UNCHANGED <<ledgerVars, listVars, verifyVars, storeVars, sortVars>>

\* earlier copy: keccak256File and proofFile.text() settle; inputs.length !== 1,
\* inputs[0] !== commitmentBig
ParsedEarlier(ok) ==
  /\ fpc = "parse" /\ copy = "earlier"
  /\ IF ok /\ Len(fin.inputs) = 1 /\ fin.inputs[1] = Commitment(fin.secret)
       THEN /\ passed' = Append(passed, "input")
            /\ fpc' = "connect"
            /\ UNCHANGED <<submitting, fin>>
       ELSE /\ FormFinish
            /\ UNCHANGED passed
  /\ UNCHANGED <<copy, txSent, formRuns>>
  /\ UNCHANGED <<ledgerVars, listVars, verifyVars, storeVars, sortVars>>

\* earlier copy: eth_requestAccounts and getSigner settle; the call follows
ConnectedEarlier(ok) ==
  /\ fpc = "connect" /\ copy = "earlier"
  /\ IF ok
       THEN /\ fpc' = "send"
            /\ UNCHANGED <<submitting, fin>>
       ELSE FormFinish
  /\ UNCHANGED <<copy, passed, txSent, formRuns>>
  /\ UNCHANGED <<ledgerVars, listVars, verifyVars, storeVars, sortVars>>

\* await contract.submitEvidenceWithProof(...) settles: the wallet has sent
\* the transaction, or it threw (the user refused, the node refused)
Sent(ok) ==
  /\ fpc = "send"
  /\ IF ok
       THEN /\ txSent' = TRUE
            /\ fpc' = "wait"
            /\ UNCHANGED <<submitting, fin>>
       ELSE /\ FormFinish
            /\ UNCHANGED txSent
  /\ UNCHANGED <<copy, passed, formRuns>>
  /\ UNCHANGED <<ledgerVars, listVars, verifyVars, storeVars, sortVars>>

\* await tx.wait() settles, mined or failed; the handler ends either way
Mined ==
  /\ fpc = "wait"
  /\ FormFinish
  /\ UNCHANGED <<copy, passed, txSent, formRuns>>
  /\ UNCHANGED <<ledgerVars, listVars, verifyVars, storeVars, sortVars>>

(***************************************************************************)
(* sortByTimestamp on rows whose timestamp may be 0.                       *)
(***************************************************************************)
\* the row formatEvent returns for the log of block b that carries timestamp
\* t; t is 0 when the log carries none: toNumber(a.timestamp ?? ... ?? 0)
RowOf(b, t) ==
  formatEvent([blockNumber |-> b, index |-> 0, submitter |-> "alice",
               fileHash |-> <<>>, metaHash |-> "meta", fileUrl |-> "",
               timestamp |-> t])

\* feeds of up to MaxRows logs, one per block, in chain order; the
\* timestamps that are known do not decrease along the chain
SortInputs ==
  UNION {{[i \in 1..n |-> RowOf(i, t[i])] :
            t \in {u \in [1..n -> 0..MaxStamp] :
                     \A i, j \in 1..n :
                       (i < j /\ u[i] # 0 /\ u[j] # 0) => u[i] <= u[j]}} :
         n \in 1..MaxRows}

\* sortByTimestamp(rows)
SortRows(rows) ==
  /\ sortIn' = rows
  /\ sortOut' = sortByTimestamp(rows)
  /\ UNCHANGED <<ledgerVars, listVars, verifyVars, storeVars, formVars>>


(***************************************************************************)
(* Initial state and the specifications.  The ledger is shared; the list   *)
(* view, the verify view and the content store hold no state in common,    *)
(* so each is also specified alone with the ledger it reads.               *)
(***************************************************************************)
\* values of REACT_APP_DEPLOY_BLOCK after Number(raw) (unset or not finite: 0)
FromBlocks == {0, 2}

\* hash arguments of submit calls: digests as the form sends them, and the
\* free-form strings the string-typed hash field admits
FileHashes == {keccak256("hello"), <<" ">> \o UpperHex(keccak256("hello")),
               keccak256("world"), <<"1", "2", "3">>}

\* what a user can type into the hash input
TypedInputs == {keccak256("hello"),
                <<" ">> \o UpperHex(keccak256("hello")) \o <<" ">>,
                <<"0", "x", "a", "b">>,
                <<"n", "o", "t", "-", "h", "e", "x">>,
                <<"1", "2", "3">>, <<" ">>}

\* originalname of an uploaded file
FileNames == {<<"a", ".", "t", "x", "t">>, <<"b", ".", "T", "X", "T">>, <<"c">>}

UploadFiles == {NoFile} \cup [present : {TRUE}, buffer : Contents, originalname : FileNames]

Init ==
  /\ logs = [a \in Accounts |-> <<>>]
  /\ events = <<>>
  /\ head = 0
  /\ blockTs = 1
  /\ txCount = 0
  /\ lastTx = [fn |-> "none", sender |-> Null, check |-> 0, status |-> "none"]
  /\ fromBlock \in FromBlocks
  /\ items = <<>>
  /\ status = "idle"
  /\ error = ""
  /\ cancelled = FALSE
  /\ lpc = "mount"
  /\ latest = 0
  /\ listening = FALSE
  /\ liveSeen = {}
  /\ liveCount = 0
  /\ queries = <<>>
  /\ subFrom = 0
  /\ computedHash = <<>>
  /\ matches = <<>>
  /\ vstatus = "idle"
  /\ verror = ""
  /\ ops = [i \in 1..MaxVerify |-> NoOp]
  /\ verifyCount = 0
  /\ done = [m \in {"file", "hash"} |-> NoDone]
  /\ lastMode = Null
  /\ lastQuery = <<>>
  /\ store = <<>>
  /\ uploadCount = 0
  /\ lastReq = NoFile
  /\ lastRes = ErrorResponse(0, "")
  /\ served = {}
  /\ logsV1 = [a \in Accounts |-> <<>>]
  /\ appends = <<>>
  /\ derived = {}
  /\ fileReqCount = 0
  /\ lastFileReq = [method |-> "none", name |-> <<>>]
  /\ lastFileRes = FileResponse(0, "none", "")
  /\ fpc = "idle"
  /\ submitting = FALSE
  /\ fin = NoForm
  /\ copy = "current"
  /\ passed = <<>>
  /\ txSent = FALSE
  /\ formRuns = 0
  /\ lookupCount = 0
  /\ lastLookupReq = <<>>
  /\ lastLookupRes = LookupResponse(0, FALSE, <<>>, <<>>, "")
  /\ sortIn = <<>>
  /\ sortOut = <<>>

\* one disjunct per operation; the parameters are the sets the inputs come from
Submit(senders, hashes) ==
  \E s \in senders, h \in hashes : submitEvidence(s, h, "meta", "/files/f")

SubmitWithProof(senders, hashes) ==
  \E s \in senders, h \in hashes, v \in VerifyResults :
    submitEvidenceWithProof(s, h, "meta", "/files/f", v)

Load == \E ok \in BOOLEAN : EffectStart(ok)
GotBlockNumber == \E ok \in BOOLEAN : GetBlockNumberDone(ok)
GotHistory == \E ok \in BOOLEAN : QueryFilterDone(ok)
LiveEvent == \E i \in DOMAIN events : onEvent(i)

VerifyFile(files) == \E f \in files \cup {Null} : onVerifyFile(f)
Hashed == \E id \in 1..MaxVerify, ok \in BOOLEAN, p \in BOOLEAN : HashDone(id, ok, p)
VerifyHash(typed) == \E t \in typed, p \in BOOLEAN : onVerifyHash(t, p)
VerifyGotBlockNumber ==
  \E id \in 1..MaxVerify, ok \in BOOLEAN : VerifyGetBlockDone(id, ok)
VerifyGotLogs == \E id \in 1..MaxVerify, ok \in BOOLEAN : VerifyQueryDone(id, ok)

PostUpload == \E f \in UploadFiles, w \in BOOLEAN : Upload(f, w)

SubmitV1(senders, hashes) == \E s \in senders, h \in hashes : submitEvidenceV1(s, h, "meta")

SubmitWithProofV1(senders, hashes) ==
  \E s \in senders, h \in hashes, v \in VerifyResults :
    submitEvidenceWithProofV1(s, h, "meta", v)

\* names asked of /files/: the names an upload of "hello" can be stored under
RequestNames == {StoredName(keccak256("hello"), toLowerCase(extname(n))) :
                   n \in FileNames}
FilesReq == \E m \in Methods, n \in RequestNames, b \in BOOLEAN : FilesRequest(m, n, b)

\* :hex parameters: only the prefix, two characters of a digest, a whole
\* digest with and without prefix and in upper case, a digest never stored
LookupInputs ==
  LET h == keccak256("hello") IN
    {<<"0", "x">>, SubSeq(h, 3, 4), h, SubSeq(h, 3, Len(h)),
     <<"0", "x">> \o [i \in 1..HexLen |-> IF SubSeq(h, 3, Len(h))[i] = "c" THEN "C"
                                          ELSE SubSeq(h, 3, Len(h))[i]],
     [i \in 1..HexLen |-> "e"]}
Lookup == \E hex \in LookupInputs : ByKeccak(hex)

\* form fields and wallet situations: secret 42 whose commitment is 518490
Secrets == {<<>>, <<" ">>, <<"4", "2">>}
ProofInputs == {<<>>, <<518490>>, <<7>>, <<518490, 7>>}
FormInputs ==
  [ethereum : BOOLEAN, proof : BOOLEAN, secret : Secrets,
   storeMode : {"file", "commitment"}, evidence : BOOLEAN,
   chainId : {31337, 1}, code : {"0x", "0x60"}, inputs : ProofInputs,
   reverts : BOOLEAN]
SubmitForm == \E f \in FormInputs : handleSubmit(f)
SubmitFormEarlier == \E f \in FormInputs : handleSubmitEarlier(f)
FormConnected == \E ok \in BOOLEAN : Connected(ok)
FormGotCode == \E ok \in BOOLEAN : GotCode(ok)
FormParsed == \E ok \in BOOLEAN : Parsed(ok)
FormSimulated == \E ok \in BOOLEAN : Simulated(ok)
FormParsedEarlier == \E ok \in BOOLEAN : ParsedEarlier(ok)
FormConnectedEarlier == \E ok \in BOOLEAN : ConnectedEarlier(ok)
FormSent == \E ok \in BOOLEAN : Sent(ok)

Sort == \E rows \in SortInputs : SortRows(rows)

Next ==
  \/ Submit(Accounts, FileHashes)
  \/ SubmitWithProof(Accounts, FileHashes)
  \/ SealBlock
  \/ Load
  \/ GotBlockNumber
  \/ GotHistory
  \/ LiveEvent
  \/ Unmount
  \/ VerifyFile(Contents)
  \/ Hashed
  \/ VerifyHash(TypedInputs)
  \/ VerifyGotBlockNumber
  \/ VerifyGotLogs
  \/ PostUpload
  \/ SubmitV1(Accounts, FileHashes)
  \/ SubmitWithProofV1(Accounts, FileHashes)
  \/ FilesReq
  \/ Lookup
  \/ Sort
  \/ SubmitForm
  \/ SubmitFormEarlier
  \/ FormConnected
  \/ FormGotCode
  \/ FormParsed
  \/ FormSimulated
  \/ FormParsedEarlier
  \/ FormConnectedEarlier
  \/ FormSent
  \/ Mined

Spec == Init /\ [][Next]_vars

\* the ledger alone
NextLedger ==
  \/ Submit(Accounts, FileHashes)
  \/ SubmitWithProof(Accounts, FileHashes)
  \/ SealBlock
SpecLedger == Init /\ [][NextLedger]_vars

\* the list view and the ledger it reads (it never looks at the hash)
NextList ==
  \/ Submit({"alice"}, {keccak256("hello")})
  \/ SealBlock
  \/ Load
  \/ GotBlockNumber
  \/ GotHistory
  \/ LiveEvent
  \/ Unmount
SpecList == Init /\ [][NextList]_vars

\* the same, with the deliveries the provider guarantees: a subscription
\* delivers the logs of the blocks sealed after contract.on was called
Delivery(i) == i \in DOMAIN events /\ events[i].blockNumber > subFrom /\ onEvent(i)
SpecListFair == SpecList /\ \A i \in 1..MaxTx : WF_vars(Delivery(i))

\* the verify view and the ledger it reads (it never looks at the submitter)
VerifyHashes == FileHashes \ {keccak256("world")}
NextVerify ==
  \/ Submit({"alice"}, VerifyHashes)
  \/ SealBlock
  \/ VerifyFile({"hello"})
  \/ Hashed
  \/ VerifyHash(TypedInputs)
  \/ VerifyGotBlockNumber
  \/ VerifyGotLogs
SpecVerify == Init /\ [][NextVerify]_vars

\* the content store alone
NextStore ==
  \/ PostUpload
  \/ FilesReq
SpecStore == Init /\ [][NextStore]_vars

\* uploads and lookups by digest
NextLookup ==
  \/ PostUpload
  \/ Lookup
SpecLookup == Init /\ [][NextLookup]_vars

\* the proof-gated submit form, both copies
NextForm ==
  \/ SubmitForm
  \/ SubmitFormEarlier
  \/ FormConnected
  \/ FormGotCode
  \/ FormParsed
  \/ FormSimulated
  \/ FormParsedEarlier
  \/ FormConnectedEarlier
  \/ FormSent
  \/ Mined
SpecForm == Init /\ [][NextForm]_vars

\* both registries of EvidenceRegistry.sol
RegistryHashes == {keccak256("hello"), keccak256("world")}
NextRegistries ==
  \/ Submit(Accounts, RegistryHashes)
  \/ SubmitWithProof(Accounts, RegistryHashes)
  \/ SubmitV1(Accounts, RegistryHashes)
  \/ SubmitWithProofV1(Accounts, RegistryHashes)
  \/ SealBlock
SpecRegistries == Init /\ [][NextRegistries]_vars

\* sortByTimestamp alone
NextSort == Sort
SpecSort == Init /\ [][NextSort]_vars


(***************************************************************************)
(* Properties.                                                             *)
(***************************************************************************)
\* indexes of the logs the backfill of the list view fetched
BackfillRange == {i \in DOMAIN events : /\ events[i].blockNumber >= fromBlock
                                        /\ events[i].blockNumber <= latest}
FeedIds == {items[k].id : k \in DOMAIN items}
IdOf(i) == EventId(events[i].blockNumber, events[i].index)
\* ledger position of a feed row
PosOf(row) == CHOOSE i \in DOMAIN events : IdOf(i) = row.id

\* C1: once the backfill is merged, and after every live merge, the feed of a
\* mounted list view holds each delivered event (backfill or live) exactly
\* once: no id twice, none missing, N records for N distinct delivered ids.
C1_FeedHoldsEachDeliveredOnce ==
  (lpc = "live" /\ ~cancelled) =>
    LET delivered == BackfillRange \cup liveSeen IN
      /\ \A k, l \in DOMAIN items : k # l => items[k].id # items[l].id
      /\ FeedIds = {IdOf(i) : i \in delivered}
      /\ Len(items) = Cardinality(delivered)
      /\ \A i \in delivered : \E k \in DOMAIN items : items[k] = formatEvent(events[i])

\* two backfilled events, one of them delivered again by the subscription
C1_Witness ==
  /\ lpc = "live" /\ ~cancelled
  /\ Cardinality(BackfillRange) >= 2
  /\ liveSeen \cap BackfillRange # {}
  /\ Len(items) = 2

\* C3: the feed is sorted by descending timestamp in every state.
C3_FeedSortedDescending ==
  \A k \in 1..(Len(items) - 1) : items[k].timestamp >= items[k + 1].timestamp

\* a live merge put an older event behind a newer one
C3_Witness ==
  /\ liveSeen # {} /\ ~cancelled
  /\ Len(items) >= 2
  /\ items[1].timestamp > items[2].timestamp
  /\ PosOf(items[2]) \in liveSeen \ BackfillRange

\* C9: feed rows that share a timestamp stand in ledger position order.
C9_TiesInLedgerOrder ==
  \A k, l \in DOMAIN items :
    (k < l /\ items[k].timestamp = items[l].timestamp) =>
      PosOf(items[k]) < PosOf(items[l])

\* C10: delivering an event whose id is already in the feed leaves the feed as
\* it was (same rows, same order).
C10_RedeliveryLeavesFeed ==
  [][(liveCount' # liveCount /\ ~cancelled
        /\ {items'[k].id : k \in DOMAIN items'} = FeedIds) => items' = items]_vars

\* C4: a submitEvidenceWithProof whose check fails changes no record list and
\* emits nothing.
C4_FailedProofChangesNothing ==
  [][(txCount' # txCount /\ lastTx'.fn = "submitEvidenceWithProof"
        /\ lastTx'.check # 0) => (logs' = logs /\ events' = events)]_vars

\* a refused gated append on a ledger that already holds records
C4_Witness ==
  /\ lastTx.fn = "submitEvidenceWithProof" /\ lastTx.check # 0
  /\ lastTx.status = "reverted"
  /\ events # <<>>
  /\ logs[lastTx.sender] # <<>>

\* C5: no step shortens a submitter's list or changes a stored record.
C5_AppendOnly ==
  [][\A a \in Accounts :
       /\ Len(logs'[a]) >= Len(logs[a])
       /\ \A i \in 1..Len(logs[a]) : logs'[a][i] = logs[a][i]]_vars

\* one submitter holds two records, stored in different blocks
C5_Witness ==
  \E a \in Accounts : /\ Len(logs[a]) >= 2
                      /\ logs[a][1].timestamp # logs[a][2].timestamp


\* indexes of the logs a verify operation that read head position l fetched
VerifyRange(l) == {i \in DOMAIN events : /\ events[i].blockNumber >= fromBlock
                                         /\ events[i].blockNumber <= l}
\* equality after trimming and lower-casing both sides
SameHash(a, b) == toLowerCase(TrimEnd(TrimStart(a))) = toLowerCase(TrimEnd(TrimStart(b)))

\* C6: a completed verify operation for query q returns exactly the rows of
\* the fetched range whose hash equals q after trimming and lower-casing.
C6_VerifyReturnsExactMatches ==
  /\ \A m \in {"file", "hash"} :
       done[m].valid =>
         /\ \A i \in VerifyRange(done[m].latest) :
              SameHash(events[i].fileHash, done[m].q) <=>
                \E k \in DOMAIN done[m].matches : done[m].matches[k].id = IdOf(i)
         /\ \A k \in DOMAIN done[m].matches :
              \E i \in VerifyRange(done[m].latest) :
                done[m].matches[k] = formatVerifyEvent(events[i])
  /\ vstatus = "done" => (lastMode # Null /\ matches = done[lastMode].matches)

\* a result that holds a row whose stored hash differs from the query in case
\* and white space, and leaves out a row of the range
C6_Witness ==
  /\ vstatus = "done" /\ lastMode # Null
  /\ \E k \in DOMAIN matches : matches[k].hash # done[lastMode].q
  /\ \E i \in VerifyRange(done[lastMode].latest) :
       \A k \in DOMAIN matches : matches[k].id # IdOf(i)

\* C7: for the same content and the same ledger range, verify by file and
\* verify by the typed digest (any letter case) return the same matches.
C7_FileAndTypedAgree ==
  (/\ done["file"].valid /\ done["hash"].valid
   /\ done["file"].latest = done["hash"].latest
   /\ toLowerCase(trim(done["hash"].input)) = keccak256(done["file"].input))
    => done["file"].matches = done["hash"].matches

\* both modes completed for the same content, the digest typed in upper case
C7_Witness ==
  /\ done["file"].valid /\ done["hash"].valid
  /\ done["file"].latest = done["hash"].latest
  /\ toLowerCase(trim(done["hash"].input)) = keccak256(done["file"].input)
  /\ done["hash"].input # keccak256(done["file"].input)
  /\ done["file"].matches # <<>>

\* a digest (0x and 64 hex digits) and a decimal number, spelled out
IsDigestText(s) ==
  /\ Len(s) = 66 /\ s[1] = "0" /\ s[2] = "x"
  /\ \A i \in 3..66 : s[i] \in HexDigits
IsDecimalText(s) == s # <<>> /\ \A i \in DOMAIN s : s[i] \in Digits
ValidationErrors == {"Invalid hash: must be 0x + 64 hex chars (Keccak-256).",
                     "Invalid commitment: paste a decimal number (no spaces)."}
Rejected == vstatus' = "error" /\ verror' \in ValidationErrors /\ ops' = ops

\* C8 as stated: typed input that is neither a digest nor a decimal number is
\* rejected with a validation error, and nothing is queried.
C8_InvalidTypedRejected ==
  [][\A t \in TypedInputs, p \in BOOLEAN :
       (onVerifyHash(t, p) /\ ~IsDigestText(t) /\ ~IsDecimalText(t)) => Rejected]_vars

\* C8 amended: the typed input is trimmed first; what is left, if it is not
\* empty and neither a digest nor a decimal number, is rejected with a
\* validation error and nothing is queried; empty input is ignored (no status,
\* error, result or query changes).
C8_InvalidTrimmedRejected ==
  [][\A t \in TypedInputs, p \in BOOLEAN :
       onVerifyHash(t, p) =>
         LET h == TrimEnd(TrimStart(t)) IN
           /\ (h # <<>> /\ ~IsDigestText(h) /\ ~IsDecimalText(h)) => Rejected
           /\ h = <<>> => UNCHANGED <<vstatus, verror, matches, ops>>]_vars

\* a validation error is shown and no operation is in flight
C8_Witness ==
  /\ vstatus = "error" /\ verror \in ValidationErrors
  /\ \A id \in DOMAIN ops : ops[id] = NoOp
  /\ verifyCount = 1

\* C2: an upload of bytes that were stored before, under the same original
\* extension, succeeds and returns the same filename and url.
C2_SecondUploadSucceeds ==
  \A u \in served :
    (lastReq.present /\ lastReq.buffer = u.buffer
       /\ extname(lastReq.originalname) = u.ext)
      => (/\ lastRes.ok /\ lastRes.status = 200
          /\ lastRes.filename = u.filename /\ lastRes.url = u.url)

\* C11: a list view that was torn down has no EvidenceSubmitted listener
\* attached, whether the teardown came before or after the backfill settled.
C11_TornDownHasNoListener == cancelled => ~listening

\* C12: once the list view is torn down, no step changes items, status or
\* error: not the backfill's result, not its late failure, not a live event.
C12_NoUpdateAfterTeardown ==
  [][cancelled => UNCHANGED <<items, status, error>>]_vars

\* torn down while loading; the backfill then settled with logs to show and a
\* live event was delivered
C12_Witness ==
  /\ cancelled /\ lpc = "live"
  /\ status = "loading" /\ items = <<>>
  /\ BackfillRange # {}
  /\ liveCount > 0

\* C17: within a load cycle status moves idle -> loading -> idle or
\* idle -> loading -> error (when getProvider throws, setStatus("loading") and
\* setStatus("error") run in the same synchronous step); a live merge happens
\* in status idle and leaves it idle; error is never left, loading is entered
\* from idle only, and after a failure the effect issues no further fetch.
C17_StatusMoves ==
  [][/\ status' # status =>
          \/ status = "idle" /\ lpc = "mount" /\ status' \in {"loading", "error"}
          \/ status = "loading" /\ status' \in {"idle", "error"}
     /\ (liveCount' # liveCount /\ items' # items) =>
          (status = "idle" /\ status' = "idle")
     /\ status = "error" => (status' = "error" /\ lpc' = lpc)
     /\ lpc = "failed" => lpc' = "failed"]_vars

\* a live merge added a row to the feed of an idle view
C17_Witness ==
  /\ status = "idle" /\ lpc = "live" /\ ~cancelled
  /\ liveSeen \ BackfillRange # {}
  /\ \E k \in DOMAIN items : PosOf(items[k]) \in liveSeen \ BackfillRange

\* C18: a load that failed (no provider, head position or historical query)
\* leaves the view with status error and a non-empty message, its feed as it
\* was before the load (empty), and no live subscription; a view torn down
\* before the failure arrived is left as it was (loading, no message).
C18_FailedLoad ==
  lpc = "failed" =>
    /\ ~listening
    /\ items = <<>>
    /\ \/ status = "error" /\ error # ""
       \/ cancelled /\ status = "loading" /\ error = ""

\* the historical query failed although the range held sealed logs
C18_Witness ==
  /\ lpc = "failed" /\ ~cancelled
  /\ status = "error" /\ error = "Failed to load events"
  /\ latest >= 1 /\ BackfillRange # {}

\* text equality up to letter case
SameTextIgnoringCase(a, b) ==
  /\ Len(a) = Len(b)
  /\ \A i \in 1..Len(a) : LowerChar(a[i]) = LowerChar(b[i])
DigestPart(name) == SubSeq(name, 1, HexLen)

\* C13 as stated: two uploads of identical bytes get the same storage name,
\* whatever their original file names.
C13_SameBytesSameName ==
  \A u, v \in derived : u.buffer = v.buffer => u.storedName = v.storedName

\* C13 amended: the storage names of two uploads of identical bytes have the
\* same digest part, and they are the same name exactly when the two original
\* file names have the same extension up to letter case.
C13_SameBytesSameExtensionSameName ==
  \A u, v \in derived :
    u.buffer = v.buffer =>
      /\ DigestPart(u.storedName) = DigestPart(v.storedName)
      /\ u.storedName = v.storedName <=>
           SameTextIgnoringCase(extname(u.originalname), extname(v.originalname))

\* the same bytes uploaded as a.txt and as b.TXT got one storage name
C13_Witness ==
  \E u, v \in derived :
    /\ u.buffer = v.buffer
    /\ u.originalname # v.originalname
    /\ extname(u.originalname) # extname(v.originalname)
    /\ u.storedName = v.storedName

\* C14: no step removes a stored name or changes the bytes stored under it.
C14_WriteOnce ==
  [][\A n \in DOMAIN store : n \in DOMAIN store' /\ store'[n] = store[n]]_vars

\* bytes stored earlier were uploaded again under the same extension, and a
\* DELETE was sent to a stored name
C14_Witness ==
  /\ \E u \in served : /\ lastReq.present
                       /\ lastReq.buffer = u.buffer
                       /\ extname(lastReq.originalname) = u.ext
  /\ lastFileReq.method = "DELETE"
  /\ lastFileReq.name \in DOMAIN store

\* C20: a POST, PUT, PATCH or DELETE to /files/... is answered 405 by the
\* gate and changes no stored blob; the file-serving handler answers GET and
\* HEAD only.
C20_MutatingMethodsRefused ==
  [][fileReqCount' # fileReqCount =>
       /\ store' = store
       /\ lastFileReq'.method \in {"POST", "PUT", "PATCH", "DELETE"} =>
            (lastFileRes'.status = 405 /\ lastFileRes'.handler = "gate")
       /\ lastFileRes'.handler = "static" =>
            lastFileReq'.method \in {"GET", "HEAD"}]_vars

\* a PUT to the name of a stored blob was refused
C20_Witness ==
  /\ lastFileReq.method = "PUT"
  /\ lastFileReq.name \in DOMAIN store
  /\ lastFileRes.status = 405

\* C15: a transaction that succeeds adds one record to the caller's list and
\* emits one EvidenceSubmitted event with the record's submitter, content
\* hash, metadata reference, file URL and timestamp; events and records only
\* ever appear together.
C15_AppendStoresAndEmitsOne ==
  [][LET s == lastTx'.sender
         records(a) == Len(logs[a]) + Len(logsV1[a])
         recordsAfter(a) == Len(logs'[a]) + Len(logsV1'[a])
     IN /\ (txCount' # txCount /\ lastTx'.status = "success") =>
             /\ Len(events') = Len(events) + 1
             /\ recordsAfter(s) = records(s) + 1
             /\ \A a \in Accounts \ {s} : recordsAfter(a) = records(a)
             /\ Len(logs'[s]) = Len(logs[s]) + 1
             /\ LET e == events'[Len(events')]
                    r == logs'[s][Len(logs'[s])]
                IN /\ e.submitter = s
                   /\ e.fileHash = r.fileHash /\ e.metaHash = r.metaHash
                   /\ e.fileUrl = r.fileUrl /\ e.timestamp = r.timestamp
        /\ events' # events => \E a \in Accounts : recordsAfter(a) = records(a) + 1
        /\ (\E a \in Accounts : recordsAfter(a) # records(a)) =>
             Len(events') = Len(events) + 1]_vars

\* the appends a submitter made, in execution order
AppendsOf(s) == SelectSeq(appends, LAMBDA c : c.sender = s /\ c.registry = "V2")

\* C16: getEvidenceCount(s) is the number of appends s made, and
\* getEvidence(s, i) returns the fields of the i-th of them (from 0).
C16_CountAndLookup ==
  \A s \in Accounts :
    /\ getEvidenceCount(s) = Len(AppendsOf(s))
    /\ \A i \in 0..(Len(AppendsOf(s)) - 1) :
         LET e == getEvidence(s, i)
             c == AppendsOf(s)[i + 1]
         IN /\ e.fileHash = c.fileHash /\ e.metaHash = c.metaHash
            /\ e.fileUrl = c.fileUrl /\ e.timestamp = c.timestamp

\* one submitter appended two records with different hashes, the other none
C16_Witness ==
  \E s \in Accounts :
    /\ getEvidenceCount(s) = 2
    /\ getEvidence(s, 0).fileHash # getEvidence(s, 1).fileHash
    /\ \A a \in Accounts \ {s} : getEvidenceCount(a) = 0

\* feed position of a sorted row
FeedPos(row) == CHOOSE i \in DOMAIN sortIn : sortIn[i] = row

\* C19: in the sorted feed a row with timestamp 0 stands by its feed
\* position: before every row that has a timestamp and an earlier position.
C19_ZeroStampByPosition ==
  \A k, l \in DOMAIN sortOut :
    (/\ sortOut[k].timestamp = 0 /\ sortOut[l].timestamp # 0
     /\ FeedPos(sortOut[k]) > FeedPos(sortOut[l])) => k < l

\* C21: an upload request without a file is answered 400 with ok = false,
\* derives no storage name and leaves the stored blobs as they were.
C21_NoFileRejected ==
  [][(uploadCount' # uploadCount /\ ~lastReq'.present) =>
       /\ lastRes'.status = 400 /\ ~lastRes'.ok
       /\ lastRes'.filename = <<>> /\ lastRes'.keccak256 = <<>>
       /\ derived' = derived
       /\ store' = store]_vars

\* a request without a file reached a store that holds a blob
C21_Witness ==
  /\ uploadCount >= 2
  /\ ~lastReq.present
  /\ lastRes.status = 400
  /\ DOMAIN store # {}

\* the text after the digest part of a stored name
ExtensionPart(name) == SubSeq(name, HexLen + 1, Len(name))
\* the hex digits of a digest, without 0x
HexOf(digest) == SubSeq(digest, 3, Len(digest))
LowerText(t) == [i \in 1..Len(t) |-> LowerChar(t[i])]

\* C26: every stored name is the Keccak-256 hex digest (without 0x) of the
\* bytes stored under it followed by the lower-cased extension of the original
\* name of an upload of those bytes, and every ok = true response names a
\* stored blob, with url = "/files/" + filename.
C26_ContentAddressed ==
  /\ \A n \in DOMAIN store :
       /\ DigestPart(n) = HexOf(keccak256(store[n]))
       /\ \E d \in derived :
            /\ d.buffer = store[n]
            /\ ExtensionPart(n) = LowerText(extname(d.originalname))
  /\ lastRes.ok =>
       /\ lastRes.filename \in DOMAIN store
       /\ lastRes.url = <<"/", "f", "i", "l", "e", "s", "/">> \o lastRes.filename
       /\ HexOf(lastRes.keccak256) = DigestPart(lastRes.filename)

\* two blobs are stored, one of them uploaded under an upper-case extension
C26_Witness ==
  /\ Cardinality(DOMAIN store) = 2
  /\ lastRes.ok
  /\ extname(lastReq.originalname) # LowerText(extname(lastReq.originalname))

\* C29: a submit call by account A, successful or reverted, leaves the record
\* list of every other account as it was; a successful one adds its record to
\* A's list, and a reverted one adds nothing to any list.
C29_AppendsIsolated ==
  [][txCount' # txCount =>
       LET A == lastTx'.sender IN
         /\ \A B \in Accounts \ {A} : logs'[B] = logs[B] /\ logsV1'[B] = logsV1[B]
         /\ lastTx'.status = "success" =>
              Len(logs'[A]) + Len(logsV1'[A]) = Len(logs[A]) + Len(logsV1[A]) + 1
         /\ lastTx'.status = "reverted" =>
              (logs'[A] = logs[A] /\ logsV1'[A] = logsV1[A])]_vars

\* each account holds one record; the second was appended by a gated call
C29_Witness ==
  /\ \A a \in Accounts : Len(logs[a]) + Len(logsV1[a]) = 1
  /\ lastTx.fn = "submitEvidenceWithProof"
  /\ lastTx.status = "success"

\* C30: no step removes a record id from the feed: what the feed showed before
\* the backfill completed or a live event was merged, it shows afterwards.
C30_FeedOnlyGrows ==
  [][FeedIds \subseteq {items'[k].id : k \in DOMAIN items'}]_vars

\* a mounted view whose feed holds a backfilled row and two rows merged live
C30_Witness ==
  /\ lpc = "live" /\ ~cancelled
  /\ BackfillRange # {}
  /\ Cardinality(liveSeen \ BackfillRange) >= 1
  /\ liveCount >= 2
  /\ Len(items) = Cardinality(BackfillRange \cup liveSeen)

\* position of the effect's async function, in program order
StepOf(pc) ==
  CASE pc = "mount" -> 0
    [] pc = "getBlock" -> 1
    [] pc = "query" -> 2
    [] pc = "live" -> 3
    [] pc = "failed" -> 3

\* C22: the effect moves forward only, so the historical query is issued at
\* most once, and exactly once before a subscription exists; the subscription
\* is opened by the step that completes that query successfully and never a
\* second time; and every feed a step produces is de-duplicated and sorted.
C22_BackfillThenSubscribe ==
  [][/\ StepOf(lpc') >= StepOf(lpc)
     /\ lpc' = "query" /\ lpc # "query" => lpc = "getBlock"
     /\ listening' /\ ~listening => (lpc = "query" /\ lpc' = "live")
     /\ listening => (listening' /\ lpc = "live" /\ lpc' = "live")
     /\ items' # items =>
          /\ listening'
          /\ \A k, l \in DOMAIN items' : k # l => items'[k].id # items'[l].id
          /\ \A k \in 1..(Len(items') - 1) :
               items'[k].timestamp >= items'[k + 1].timestamp]_vars

\* the backfill put two rows of different blocks in the feed and a live event
\* was merged after it
C22_Witness ==
  /\ lpc = "live" /\ listening /\ ~cancelled
  /\ \E i, j \in BackfillRange : events[i].blockNumber # events[j].blockNumber
  /\ liveCount = 1
  /\ Len(items) >= 2

\* block positions of the chain
Positions == 0..(MaxBlocks + 1)
\* number of issued queries whose range holds position p
QueriedBy(p) == Cardinality({k \in DOMAIN queries :
                               queries[k].from <= p /\ p <= queries[k].to})

\* C23: once the backfill has issued its queries, every position of
\* [fromBlock, latest] is in the range of exactly one of them and no other
\* position is in the range of any.
C23_BackfillCoversRangeOnce ==
  /\ lpc \in {"query", "live"} => queries # <<>>
  /\ queries # <<>> =>
       \A p \in Positions :
         QueriedBy(p) = IF fromBlock <= p /\ p <= latest THEN 1 ELSE 0

\* a backfill over the three positions 0..2 that fetched logs of two blocks
C23_Witness ==
  /\ lpc = "live" /\ ~cancelled
  /\ fromBlock = 0 /\ latest = 2
  /\ queries # <<>>
  /\ \E k, l \in DOMAIN items : items[k].timestamp # items[l].timestamp

\* C24: while the view stays mounted after a successful load, every sealed
\* event at or after the start position comes to be in the feed (the escape
\* liveCount = MaxLive is the end of the deliveries the model follows).
C24_EveryEventShown ==
  \A i \in 1..MaxTx :
    (/\ lpc = "live" /\ ~cancelled
     /\ i \in DOMAIN events
     /\ events[i].blockNumber <= head
     /\ events[i].blockNumber >= fromBlock)
      ~> (\/ cancelled
          \/ liveCount = MaxLive
          \/ i \in DOMAIN events /\ IdOf(i) \in FeedIds)

\* C25: whenever the verify view is done, the match list is the result for the
\* most recently submitted query and, after a file verification, for the
\* displayed computed hash.
C25_LatestQueryWins ==
  (vstatus = "done" /\ lastMode # Null) =>
    /\ matches = done[lastMode].matches
    /\ SameHash(done[lastMode].q, lastQuery)
    /\ lastMode = "file" => SameHash(done[lastMode].q, computedHash)

\* the digest a /by-keccak parameter asks for: lower case, without "0x"
RequestedDigest(hex) ==
  toLowerCase(IF startsWith(hex, <<"0", "x">>) THEN SubSeq(hex, 3, Len(hex)) ELSE hex)

\* C27: a lookup by digest answers with a stored file only when the file's
\* name stem is the requested digest, and answers 404 Not found when no
\* stored blob has the requested value as its digest.
C27_LookupByFullDigest ==
  lookupCount > 0 =>
    /\ lastLookupRes.ok =>
         DigestPart(lastLookupRes.filename) = RequestedDigest(lastLookupReq)
    /\ (\A n \in DOMAIN store : DigestPart(n) # RequestedDigest(lastLookupReq)) =>
         (lastLookupRes.status = 404 /\ ~lastLookupRes.ok
          /\ lastLookupRes.error = "Not found")

\* C28: the form's transaction is sent only after the presence guards, the
\* chain id and contract code checks, the check of the first public input and
\* a successful simulation, passed in this order; and submitting is false
\* whenever no handler is running.
C28_SendOnlyAfterChecks ==
  /\ txSent => passed = AllChecks
  /\ fpc = "idle" => ~submitting

====
